---- MODULE Spec2Model ----
(***************************************************************************)
(* Block-lifecycle coordinator (server/v2/appmanager/service.go).          *)
(*                                                                         *)
(* AppManager's methods all have VALUE receivers: every call works on a    *)
(* copy `a` of the coordinator struct taken at call time.  The pointer     *)
(* field lastBlockHeight is shared through the copy, the three cache       *)
(* fields are not: an assignment to a.cachedState inside a method changes  *)
(* the copy only.  The coordinator's own cache fields therefore keep the   *)
(* values they were constructed with; the model starts from every          *)
(* well-formed slot content (empty, or one triple of one speculative       *)
(* build).                                                                 *)
(***************************************************************************)
EXTENDS Integers, Sequences, FiniteSets, TLC

\* ---------------------------------------------------------------- bounds
MaxHeight == 2
MaxCommits == 2

\* ---------------------------------------------------------------- values
Nil == <<>>
Some(x) == <<x>>

TxBytes == {"A", "B"}

\* Block.Txs: ordered lists of transaction byte-strings, length 0..2
TxLists ==
    {<<>>} \cup {<<x>> : x \in TxBytes} \cup {<<x, y>> : x \in TxBytes, y \in TxBytes}

Heights == 1..MaxHeight

\* type Tx struct { Tx []byte; Identifier string }
Tx(b) == [Tx |-> b, Identifier |-> b]

\* what the pool hands out: no transaction, one, or two distinct ones
PoolLists == {[i \in 1..Len(l) |-> Tx(l[i])] : l \in {<<>>, <<"A">>, <<"A", "B">>}}

BytesOf(txs) == [i \in 1..Len(txs) |-> txs[i].Tx]

BlockRequest == [Height : Heights, Txs : TxLists]

\* ---------------------------------------------------------------- engine
\* stf.DeliverBlock followed by newState.ChangeSets(): a deterministic
\* function of the transactions and of the state view executed against.
ChangeSets(txs, state) == [txs |-> txs, at |-> state.height]

BlockResponse(txs, state) == [results |-> txs, at |-> state.height]

\* ---------------------------------------------------------------- store
\* db.NewStateAt / db.ReadonlyStateAt: a view anchored at a height
NewStateAt(height) == [height |-> height]

ReadonlyStateAt(height) == [height |-> height]

\* db.CommitState: all change-sets apply, as one new version
CommitState(store, changeSets) == Append(store, changeSets)

\* the content-derived root CommitState returns
StateRoot(store) == [version |-> Len(store), content |-> store]

\* ---------------------------------------------------------------- state
VARIABLES
    lastBlockHeight,      \* *atomic.Uint64, shared by every receiver copy
    cachedState,          \* coordinator field, Nil or Some(change-sets)
    cachedTx,             \* coordinator field, Nil or Some(list of Tx)
    cachedBlockResponse,  \* coordinator field, Nil or Some(response)
    db,                   \* the store: the change-sets committed, in order
    th,                   \* the calls in progress, one per calling thread
    gen                   \* the builder's InitGenesis map and the genesis run

vars == <<lastBlockHeight, cachedState, cachedTx, cachedBlockResponse, db, th, gen>>

NoRet == [resp |-> Nil, root |-> Nil, txs |-> Nil, err |-> "none"]

Idle ==
    [pc |-> "idle", op |-> "none",
     a |-> [cachedState |-> Nil, cachedTx |-> Nil, cachedBlockResponse |-> Nil],
     block |-> Nil, txs |-> Nil, currentState |-> Nil,
     blockResponse |-> Nil, newStateChanges |-> Nil, stateRoot |-> Nil,
     lastBlock |-> Nil,
     pre |-> 0, preDb |-> <<>>, retryOf |-> Nil,
     engine |-> FALSE, commits |-> 0, ret |-> NoRet]

\* the receiver copy made when a method is called
Receiver ==
    [cachedState |-> cachedState, cachedTx |-> cachedTx,
     cachedBlockResponse |-> cachedBlockResponse]

\* what PrepareBlock yields for the pool's transactions at a height
Built(txs, height) ==
    [cachedState |-> Some(ChangeSets(BytesOf(txs), NewStateAt(height))),
     cachedTx |-> Some(txs),
     cachedBlockResponse |-> Some(BlockResponse(BytesOf(txs), NewStateAt(height)))]

EmptySlot == [cachedState |-> Nil, cachedTx |-> Nil, cachedBlockResponse |-> Nil]

\* the slot a coordinator is constructed with: empty, or the triple of a
\* speculative build of the first block
SlotContents == {EmptySlot} \cup {Built(txs, 1) : txs \in PoolLists}

\* AppManagerBuilder before any registration, the genesis closure not called
NoGenesis ==
    [pc |-> "register", InitGenesis |-> {}, genesisBytes |-> Nil,
     pending |-> {}, calls |-> <<>>, err |-> Nil]

Callable(t) == th[t].pc \in {"idle", "done"}

InFlight(op) == {u \in DOMAIN th : th[u].op = op /\ ~Callable(u)}

InitFrom(threads, slots) ==
    /\ lastBlockHeight = 0
    /\ db = <<>>
    /\ \E s \in slots :
          /\ cachedState = s.cachedState
          /\ cachedTx = s.cachedTx
          /\ cachedBlockResponse = s.cachedBlockResponse
    /\ th = [t \in threads |-> Idle]
    /\ gen = NoGenesis

InitWith(threads) == InitFrom(threads, SlotContents)

Init == InitWith({"t1"})

Return(t, call, ret) ==
    th' = [th EXCEPT ![t] = [call EXCEPT !.pc = "done", !.ret = ret]]

Goto(t, call, pc) ==
    th' = [th EXCEPT ![t] = [call EXCEPT !.pc = pc]]

Fail(label) == [NoRet EXCEPT !.err = label]

\* every stage's error returned under one label
ErrorLabel_Unwrapped(stage) == "error"

\* the label fmt.Errorf puts before the error of a failed stage of DeliverBlock
ErrorLabel(stage) ==
    CASE stage = "NewStateAt" -> "unable to create new state for height"
      [] stage = "stf.DeliverBlock" -> "block delivery failed"
      [] stage = "ChangeSets" -> "change set"
      [] stage = "CommitState" -> "commit failed"

Shared == <<cachedState, cachedTx, cachedBlockResponse>>

\* ---------------------------------------------------------------- DeliverBlock
\* the comparison loop of DeliverBlock: every cached transaction is compared
\* with every transaction of the block, one unequal pair sets diff
Diff(cached, blockTxs) ==
    \E i \in 1..Len(cached), j \in 1..Len(blockTxs) : cached[i].Tx # blockTxs[j]

\* "if we cached values, avoid rexecuting"
UseCache(a, block) ==
    /\ a.cachedState # Nil
    /\ a.cachedTx # Nil
    /\ ~Diff(a.cachedTx[1], block.Txs)

\* the state the caller's preceding DeliverBlock started from, when that call
\* failed and this one repeats its Block Request
RetryOf(t, block) ==
    IF /\ th[t].pc = "done"
       /\ th[t].op = "DeliverBlock"
       /\ th[t].ret.err # "nil"
       /\ th[t].block = Some(block)
    THEN Some([db |-> th[t].preDb, height |-> th[t].pre])
    ELSE Nil

\* a.db.NewStateAt(block.Height): the call starts, on a copy of the receiver
DeliverBlock_NewStateAt(t) ==
    /\ Callable(t)
    /\ Len(db) + Cardinality(InFlight("DeliverBlock")) < MaxCommits
    /\ \E block \in BlockRequest, ok \in BOOLEAN :
          LET call == [Idle EXCEPT !.op = "DeliverBlock", !.a = Receiver,
                                   !.block = Some(block), !.pre = lastBlockHeight,
                                   !.preDb = db, !.retryOf = RetryOf(t, block)]
          IN  IF ok
              THEN Goto(t, [call EXCEPT !.currentState = Some(NewStateAt(block.Height))],
                        "cache")
              ELSE Return(t, call, Fail(ErrorLabel("NewStateAt")))
    /\ UNCHANGED <<lastBlockHeight, db, Shared, gen>>

\* the cache check, then either the commit of the cached change-sets or the
\* engine's execution and the derivation of its change-sets
DeliverBlock_Execute(t) ==
    /\ th[t].pc = "cache"
    /\ LET c == th[t]
           block == c.block[1]
       IN  IF UseCache(c.a, block)
           THEN \E ok \in BOOLEAN :
                  LET call == [c EXCEPT !.commits = @ + 1]
                  IN  IF ok
                      THEN /\ db' = CommitState(db, c.a.cachedState[1])
                           /\ Return(t, call,
                                     [NoRet EXCEPT !.resp = c.a.cachedBlockResponse,
                                                   !.root = Some(StateRoot(db')),
                                                   !.err = "nil"])
                      ELSE /\ UNCHANGED db
                           /\ Return(t, call, Fail(ErrorLabel("CommitState")))
           ELSE /\ UNCHANGED db
                /\ \E out \in {"ok", "stf.DeliverBlock", "ChangeSets"} :
                      LET call == [c EXCEPT !.engine = TRUE]
                          delivered ==
                              [call EXCEPT
                                 !.blockResponse =
                                     Some(BlockResponse(block.Txs, c.currentState[1]))]
                      IN  CASE out = "ok" ->
                                 Goto(t,
                                      [delivered EXCEPT
                                         !.newStateChanges =
                                             Some(ChangeSets(block.Txs, c.currentState[1]))],
                                      "commit")
                            [] out = "stf.DeliverBlock" ->
                                 Return(t, call, Fail(ErrorLabel(out)))
                            [] out = "ChangeSets" ->
                                 Return(t, delivered, Fail(ErrorLabel(out)))
    /\ UNCHANGED <<lastBlockHeight, Shared, gen>>

\* the height stored before the commit has returned
DeliverBlock_CommitState_StoreFirst(t) ==
    /\ th[t].pc = "commit"
    /\ lastBlockHeight' = th[t].block[1].Height
    /\ \E ok \in BOOLEAN :
          LET call == [th[t] EXCEPT !.commits = @ + 1]
          IN  IF ok
              THEN /\ db' = CommitState(db, call.newStateChanges[1])
                   /\ Goto(t, [call EXCEPT !.stateRoot = Some(StateRoot(db'))], "store")
              ELSE /\ UNCHANGED db
                   /\ Return(t, call, Fail(ErrorLabel("CommitState")))
    /\ UNCHANGED <<Shared, gen>>

\* a failed commit tried again inside the call
DeliverBlock_CommitState_Retry(t) ==
    /\ th[t].pc = "commit"
    /\ \E ok \in BOOLEAN :
          LET call == [th[t] EXCEPT !.commits = @ + 1]
          IN  IF ok
              THEN /\ db' = CommitState(db, call.newStateChanges[1])
                   /\ Goto(t, [call EXCEPT !.stateRoot = Some(StateRoot(db'))], "store")
              ELSE /\ UNCHANGED db
                   /\ Goto(t, call, "commit")
    /\ UNCHANGED <<lastBlockHeight, Shared, gen>>

\* a.db.CommitState(newStateChanges)
DeliverBlock_CommitState(t) ==
    /\ th[t].pc = "commit"
    /\ \E ok \in BOOLEAN :
          LET call == [th[t] EXCEPT !.commits = @ + 1]
          IN  IF ok
              THEN /\ db' = CommitState(db, call.newStateChanges[1])
                   /\ Goto(t, [call EXCEPT !.stateRoot = Some(StateRoot(db'))], "store")
              ELSE /\ UNCHANGED db
                   /\ Return(t, call, Fail(ErrorLabel("CommitState")))
    /\ UNCHANGED <<lastBlockHeight, Shared, gen>>

\* a.lastBlockHeight.Store(block.Height), and the return
DeliverBlock_Store(t) ==
    /\ th[t].pc = "store"
    /\ lastBlockHeight' = th[t].block[1].Height
    /\ Return(t, th[t],
              [NoRet EXCEPT !.resp = th[t].blockResponse,
                            !.root = th[t].stateRoot, !.err = "nil"])
    /\ UNCHANGED <<db, Shared, gen>>

\* ---------------------------------------------------------------- BuildBlock
\* the test made without the block response
CacheTest_NoResponseCheck(bsr, changeSets) == changeSets # Nil

\* "cache the changes and txs to avoid execution later on": the test
CacheTest(bsr, changeSets) == changeSets # Nil /\ bsr # Nil

AfterCall_Pointer(slot, a) == a

\* the coordinator's cache fields when a method has assigned a field of its
\* receiver a: the receiver is a value, the coordinator is not written
AfterCall(slot, a) == slot

\* a.txpool.GetTxs(ctx, totalSize)
BuildBlock_GetTxs(t) ==
    /\ Callable(t)
    /\ LET call == [Idle EXCEPT !.op = "BuildBlock", !.a = Receiver]
       IN  \/ Return(t, call, Fail("GetTxs"))
           \/ \E txs \in PoolLists :
                 Goto(t, [call EXCEPT !.txs = Some(txs)], "PrepareBlock")
    /\ UNCHANGED <<lastBlockHeight, db, Shared, gen>>

\* a.PrepareBlock(ctx, txs) and the test of its results
BuildBlock_PrepareBlock(t) ==
    /\ th[t].pc = "PrepareBlock"
    /\ LET c == th[t]
           txs == c.txs[1]
           built == Built(txs, lastBlockHeight + 1)
       IN  \/ Return(t, c, Fail("PrepareBlock"))
           \/ \E bsr \in {Nil, built.cachedBlockResponse},
                 changeSets \in {Nil, built.cachedState} :
                 LET call == [c EXCEPT !.engine = TRUE, !.blockResponse = bsr,
                                       !.newStateChanges = changeSets]
                 IN  IF CacheTest(bsr, changeSets)
                     THEN Goto(t, call, "cachedState")
                     ELSE Return(t, call, [NoRet EXCEPT !.txs = Some(txs), !.err = "nil"])
    /\ UNCHANGED <<lastBlockHeight, db, Shared, gen>>

\* the assignments a.cachedState = changeSets, a.cachedBlockResponse = bsr,
\* a.cachedTx = txs, one at a time, and the return after the last
BuildBlock_Assign(t) ==
    /\ th[t].pc \in {"cachedState", "cachedBlockResponse", "cachedTx"}
    /\ LET c == th[t]
           a == CASE c.pc = "cachedState" ->
                       [c.a EXCEPT !.cachedState = c.newStateChanges]
                  [] c.pc = "cachedBlockResponse" ->
                       [c.a EXCEPT !.cachedBlockResponse = c.blockResponse]
                  [] c.pc = "cachedTx" ->
                       [c.a EXCEPT !.cachedTx = c.txs]
           slot == AfterCall(Receiver, a)
       IN  /\ cachedState' = slot.cachedState
           /\ cachedTx' = slot.cachedTx
           /\ cachedBlockResponse' = slot.cachedBlockResponse
           /\ CASE c.pc = "cachedState" ->
                     Goto(t, [c EXCEPT !.a = a], "cachedBlockResponse")
                [] c.pc = "cachedBlockResponse" ->
                     Goto(t, [c EXCEPT !.a = a], "cachedTx")
                [] c.pc = "cachedTx" ->
                     Return(t, [c EXCEPT !.a = a],
                            [NoRet EXCEPT !.txs = c.txs, !.err = "nil"])
    /\ UNCHANGED <<lastBlockHeight, db, gen>>

\* ---------------------------------------------------------------- Query, Simulate
\* getLatestState: a.lastBlockHeight.Load()
getLatestState_Load(t, op) ==
    /\ Callable(t)
    /\ Goto(t, [Idle EXCEPT !.op = op, !.a = Receiver,
                            !.lastBlock = Some(lastBlockHeight)],
            "ReadonlyStateAt")
    /\ UNCHANGED <<lastBlockHeight, db, Shared, gen>>

Simulate(t) == getLatestState_Load(t, "Simulate")

Query(t) == getLatestState_Load(t, "Query")

\* the height refreshed from the store's version while reading
getLatestState_ReadonlyStateAt_Store(t) ==
    /\ th[t].pc = "ReadonlyStateAt"
    /\ lastBlockHeight' = Len(db)
    /\ LET c == th[t]
           state == ReadonlyStateAt(c.lastBlock[1])
       IN  \/ Return(t, c, Fail("ReadonlyStateAt"))
           \/ /\ c.lastBlock[1] <= Len(db)
              /\ Return(t, [c EXCEPT !.currentState = Some(state), !.engine = TRUE],
                        [NoRet EXCEPT !.resp = Some([op |-> c.op, at |-> state.height]),
                                      !.err = "nil"])
    /\ UNCHANGED <<db, Shared, gen>>

\* the view taken at the height as it is when the store is asked
getLatestState_ReadonlyStateAt_Reload(t) ==
    /\ th[t].pc = "ReadonlyStateAt"
    /\ LET c == th[t]
           state == ReadonlyStateAt(lastBlockHeight)
       IN  \/ Return(t, c, Fail("ReadonlyStateAt"))
           \/ /\ lastBlockHeight <= Len(db)
              /\ Return(t, [c EXCEPT !.currentState = Some(state), !.engine = TRUE],
                        [NoRet EXCEPT !.resp = Some([op |-> c.op, at |-> state.height]),
                                      !.err = "nil"])
    /\ UNCHANGED <<lastBlockHeight, db, Shared, gen>>

\* getLatestState: a.db.ReadonlyStateAt(lastBlock), then the engine's
\* Simulate or Query on that view
getLatestState_ReadonlyStateAt(t) ==
    /\ th[t].pc = "ReadonlyStateAt"
    /\ LET c == th[t]
           state == ReadonlyStateAt(c.lastBlock[1])
       IN  \/ Return(t, c, Fail("ReadonlyStateAt"))
           \/ /\ c.lastBlock[1] <= Len(db)
              /\ Return(t, [c EXCEPT !.currentState = Some(state), !.engine = TRUE],
                        [NoRet EXCEPT !.resp = Some([op |-> c.op, at |-> state.height]),
                                      !.err = "nil"])
    /\ UNCHANGED <<lastBlockHeight, db, Shared, gen>>

\* ---------------------------------------------------------------- genesis
Modules == {"auth", "bank", "gov"}

\* the genesis input: the raw payload it carries for a module, if any
GenesisInputs == [Modules -> {Nil, Some("payload")}]

Supplied(genesisBytes, module) ==
    IF genesisBytes[module] = Nil THEN Nil ELSE Some([of |-> module])

\* genesisMap := map[string][]byte{}: built empty, genesisBytes is not decoded
genesisMap(genesisBytes) == [module \in {} |-> Nil]

\* genesisMap[module]: the zero value when the key is absent
MapIndex(map, key) == IF key \in DOMAIN map THEN map[key] ELSE Nil

GenFrame == <<lastBlockHeight, db, Shared, th>>

\* a.InitGenesis[moduleName] = genesisFunc
RegisterInitGenesis(moduleName) ==
    /\ gen.pc = "register"
    /\ gen' = [gen EXCEPT !.InitGenesis = @ \cup {moduleName}]
    /\ UNCHANGED GenFrame

\* Build, and the call of the closure it returns with a genesis input
Build_genesis ==
    /\ gen.pc = "register"
    /\ \E genesisBytes \in GenesisInputs :
          gen' = [gen EXCEPT !.pc = "range", !.genesisBytes = Some(genesisBytes),
                             !.pending = gen.InitGenesis]
    /\ UNCHANGED GenFrame

\* the loop continues after an initializer has failed
genesis_Range_Continue ==
    /\ gen.pc = "range"
    /\ \E module \in gen.pending, ok \in BOOLEAN :
          LET arg == MapIndex(genesisMap(gen.genesisBytes[1]), module)
              call == [module |-> module, moduleGenesisBytes |-> arg, ok |-> ok]
          IN  gen' = [gen EXCEPT !.calls = Append(@, call),
                                 !.pending = @ \ {module},
                                 !.err = IF ok \/ gen.err # Nil THEN gen.err
                                         ELSE Some([label |-> "failed to init genesis on module",
                                                    module |-> module])]
    /\ UNCHANGED GenFrame

\* one iteration of "for module, genesisFunc := range a.InitGenesis", in
\* whichever order the map yields its keys
genesis_Range ==
    /\ gen.pc = "range"
    /\ \E module \in gen.pending, ok \in BOOLEAN :
          LET arg == MapIndex(genesisMap(gen.genesisBytes[1]), module)
              call == [module |-> module, moduleGenesisBytes |-> arg, ok |-> ok]
          IN  IF ok
              THEN gen' = [gen EXCEPT !.calls = Append(@, call),
                                      !.pending = @ \ {module}]
              ELSE gen' = [gen EXCEPT !.calls = Append(@, call),
                                      !.pc = "done",
                                      !.err = Some([label |-> "failed to init genesis on module",
                                                    module |-> module])]
    /\ UNCHANGED GenFrame

\* the loop is over: return nil
genesis_Return ==
    /\ gen.pc = "range"
    /\ gen.pending = {}
    /\ gen' = [gen EXCEPT !.pc = "done"]
    /\ UNCHANGED GenFrame

\* ---------------------------------------------------------------- specification
DeliverStep(t) ==
    \/ DeliverBlock_NewStateAt(t)
    \/ DeliverBlock_Execute(t)
    \/ DeliverBlock_CommitState(t)
    \/ DeliverBlock_Store(t)

BuildStep(t) ==
    \/ BuildBlock_GetTxs(t)
    \/ BuildBlock_PrepareBlock(t)
    \/ BuildBlock_Assign(t)

BlockStep(t) == DeliverStep(t) \/ BuildStep(t)

ReadStep(t) ==
    \/ Simulate(t)
    \/ Query(t)
    \/ getLatestState_ReadonlyStateAt(t)

Next == BlockStep("t1") \/ ReadStep("t1")

\* calls made one after the other by one caller
Spec == Init /\ [][Next]_vars

\* the consensus driver t1 makes the block calls one after the other while
\* the query-serving layer t2 runs Query and Simulate concurrently
InitConc == InitWith({"t1", "t2"})

NextConc == BlockStep("t1") \/ ReadStep("t2")

SpecConc == InitConc /\ [][NextConc]_vars

\* a step of the one DeliverBlock call that t makes
FirstCall(t) == th[t].pc # "done" /\ DeliverStep(t)

\* a DeliverBlock call of t1 while t2 runs BuildBlock on the same coordinator
NextRace == FirstCall("t1") \/ BuildStep("t2")

SpecRace == InitConc /\ [][NextRace]_vars

\* a DeliverBlock call of t1 while t2 runs Query and Simulate, on the
\* coordinator Build returns
InitRead == InitFrom({"t1", "t2"}, {EmptySlot})

NextRead == FirstCall("t1") \/ ReadStep("t2")

SpecRead == InitRead /\ [][NextRead]_vars

\* two callers that each invoke DeliverBlock once, concurrently, on the
\* coordinator Build returns
InitTwo == InitFrom({"t1", "t2"}, {EmptySlot})

NextTwo == FirstCall("t1") \/ FirstCall("t2")

SpecTwo == InitTwo /\ [][NextTwo]_vars

\* the builder registers initializers, then the genesis closure runs once on
\* the coordinator Build returns
InitGen ==
    /\ InitWith({"t1"})
    /\ Receiver = EmptySlot

NextGen ==
    \/ \E moduleName \in Modules : RegisterInitGenesis(moduleName)
    \/ Build_genesis
    \/ genesis_Range
    \/ genesis_Return

SpecGen == InitGen /\ [][NextGen]_vars

\* ---------------------------------------------------------------- properties
Returned(t, op) == th[t].pc = "done" /\ th[t].op = op

Succeeded(t) == th[t].ret.err = "nil"

AnchorFailed(t) == th[t].ret.err = "unable to create new state for height"

\* the slot the call of t found: both fields that DeliverBlock tests are set
FoundSlot(t) == th[t].a.cachedState # Nil /\ th[t].a.cachedTx # Nil

\* what executing the block of t through the engine yields
Executed(t) ==
    [changeSets |-> ChangeSets(th[t].block[1].Txs, NewStateAt(th[t].block[1].Height)),
     response |-> BlockResponse(th[t].block[1].Txs, NewStateAt(th[t].block[1].Height))]

C2_HeightUnchangedOnError ==
    \A t \in DOMAIN th :
        Returned(t, "DeliverBlock") /\ ~Succeeded(t)
            => lastBlockHeight = th[t].pre

\* a commit failed on the re-execution path after an earlier block had
\* advanced the height
C2_Witness ==
    \E t \in DOMAIN th :
        /\ Returned(t, "DeliverBlock")
        /\ th[t].ret.err = "commit failed"
        /\ th[t].engine
        /\ th[t].pre = 1
        /\ th[t].block[1].Height = 2

Committed(h) == h = 0 \/ \E i \in 1..Len(db) : db[i].at = h

C9_SlotHoldsBuild ==
    \A t \in DOMAIN th :
        Returned(t, "BuildBlock") /\ Succeeded(t)
            => /\ th[t].ret.txs = th[t].txs
               /\ th[t].blockResponse # Nil /\ th[t].newStateChanges # Nil
                    => /\ cachedTx = th[t].txs
                       /\ cachedState = th[t].newStateChanges
                       /\ cachedBlockResponse = th[t].blockResponse

\* a slot is empty, or one triple of one speculative build
WellFormed(slot) ==
    \/ slot = EmptySlot
    \/ /\ slot.cachedTx # Nil
       /\ \E h \in 1..(MaxHeight + 1) : slot = Built(slot.cachedTx[1], h)

\* C10: a BuildBlock that fails returns the error and leaves the three cache
\* fields as they were (the coordinator's, and those of the receiver it ran
\* on); at rest the three fields are all empty or all of one build.
C10_NoPartialWrite ==
    /\ WellFormed(Receiver)
    /\ \A t \in DOMAIN th :
          Returned(t, "BuildBlock")
              => /\ WellFormed(th[t].a)
                 /\ ~Succeeded(t)
                      => /\ th[t].a = Receiver
                         /\ th[t].ret.txs = Nil

\* the execution failed on a coordinator whose slot is set
C10_Witness ==
    \E t \in DOMAIN th :
        /\ Returned(t, "BuildBlock")
        /\ th[t].ret.err = "PrepareBlock"
        /\ cachedTx # Nil

\* C11: a step of Simulate or Query changes neither the store, nor
\* Last-Committed-Height, nor a field of the slot; a step of BuildBlock
\* changes neither the store nor Last-Committed-Height; only a step of
\* DeliverBlock changes Last-Committed-Height.
C11_Frame ==
    [][\A t \in DOMAIN th :
          th'[t] # th[t]
          => /\ th'[t].op \in {"Simulate", "Query"}
                  => /\ db' = db
                     /\ lastBlockHeight' = lastBlockHeight
                     /\ Receiver' = Receiver
             /\ th'[t].op = "BuildBlock"
                  => db' = db /\ lastBlockHeight' = lastBlockHeight
             /\ lastBlockHeight' # lastBlockHeight
                  => th'[t].op = "DeliverBlock"]_vars

\* a Query has run on the state of a delivered block
C11_Witness ==
    \E t \in DOMAIN th :
        /\ Returned(t, "Query")
        /\ Succeeded(t)
        /\ th[t].ret.resp[1].at = 1
        /\ Len(db) = 1

Called == {gen.calls[i].module : i \in 1..Len(gen.calls)}

\* C12: genesis invokes each registered initializer at most once; when none
\* fails, every registered one is invoked exactly once and the run succeeds;
\* once one fails no other is invoked and the error names that module,
\* whatever the order of the map.
C12_GenesisStopsAtFirstFailure ==
    /\ Called \subseteq gen.InitGenesis
    /\ \A i, j \in 1..Len(gen.calls) :
          gen.calls[i].module = gen.calls[j].module => i = j
    /\ \A i \in 1..Len(gen.calls) :
          ~gen.calls[i].ok
              => /\ i = Len(gen.calls)
                 /\ gen.pc = "done"
                 /\ gen.err = Some([label |-> "failed to init genesis on module",
                                    module |-> gen.calls[i].module])
    /\ gen.pc = "done" /\ gen.err = Nil
          => /\ Called = gen.InitGenesis
             /\ \A i \in 1..Len(gen.calls) : gen.calls[i].ok
    /\ gen.err # Nil => ~gen.calls[Len(gen.calls)].ok

\* of three registered initializers the second one invoked has failed
C12_Witness ==
    /\ gen.pc = "done"
    /\ gen.InitGenesis = Modules
    /\ Len(gen.calls) = 2
    /\ gen.calls[1].ok
    /\ gen.err = Some([label |-> "failed to init genesis on module", module |-> "bank"])

\* C13: every initializer is called with the payload the genesis input
\* supplies for its own module, and with an empty payload only when the
\* input supplies none for it.
C13_OwnPayload ==
    \A i \in 1..Len(gen.calls) :
        gen.calls[i].moduleGenesisBytes =
            Supplied(gen.genesisBytes[1], gen.calls[i].module)

\* the end state of one successful DeliverBlock of block from a start state
Delivered(store, height, a, block) ==
    IF UseCache(a, block)
    THEN [db |-> CommitState(store, a.cachedState[1]),
          height |-> height,
          root |-> Some(StateRoot(CommitState(store, a.cachedState[1])))]
    ELSE [db |-> CommitState(store, ChangeSets(block.Txs, NewStateAt(block.Height))),
          height |-> block.Height,
          root |-> Some(StateRoot(CommitState(store,
                                  ChangeSets(block.Txs, NewStateAt(block.Height)))))]

EndState(t) == [db |-> db, height |-> lastBlockHeight, root |-> th[t].ret.root]

\* C14: a failed DeliverBlock has written nothing (store and
\* Last-Committed-Height are as before the call), and a successful retry of
\* the identical request ends in the store contents, state root and
\* Last-Committed-Height of a single successful DeliverBlock of that request
\* from the state the failed call started in.
C14_FailureThenRetry ==
    \A t \in DOMAIN th :
        Returned(t, "DeliverBlock")
        => /\ ~Succeeded(t)
                => db = th[t].preDb /\ lastBlockHeight = th[t].pre
           /\ Succeeded(t)
                => EndState(t) = Delivered(th[t].preDb, th[t].pre, th[t].a, th[t].block[1])
           /\ Succeeded(t) /\ th[t].retryOf # Nil
                => EndState(t) = Delivered(th[t].retryOf[1].db, th[t].retryOf[1].height,
                                           th[t].a, th[t].block[1])

\* the retry of a failed delivery of block 2 has re-executed and committed
C14_Witness ==
    \E t \in DOMAIN th :
        /\ Returned(t, "DeliverBlock")
        /\ Succeeded(t)
        /\ th[t].retryOf # Nil
        /\ th[t].engine
        /\ th[t].block[1].Height = 2
        /\ Len(db) = 2

\* C15: with BuildBlock running concurrently, the cache entry a DeliverBlock
\* works on is never half-written: the transactions it compares, the
\* change-sets it commits and the response it returns are the three parts of
\* one build.
C15_NoHalfWrittenEntry ==
    \A t \in DOMAIN th :
        th[t].op = "DeliverBlock"
        => /\ WellFormed(th[t].a)
           /\ Returned(t, "DeliverBlock") /\ Succeeded(t) /\ ~th[t].engine
                => /\ th[t].ret.resp = th[t].a.cachedBlockResponse
                   /\ db[Len(db)] = th[t].a.cachedState[1]
                   /\ ~Diff(th[t].a.cachedTx[1], th[t].block[1].Txs)

\* a DeliverBlock that found an entry is at its cache check while a BuildBlock
\* has assigned the first of the three fields of another entry
C15_Witness ==
    /\ th["t1"].pc = "cache"
    /\ FoundSlot("t1")
    /\ th["t2"].pc = "cachedBlockResponse"
    /\ th["t2"].a.cachedState # th["t1"].a.cachedState

\* the call CommitState(newStateChanges) of t is in progress
InCommitState(t) == th[t].op = "DeliverBlock" /\ th[t].pc = "commit"

\* C16: of several concurrent DeliverBlock calls at most one is inside
\* CommitState at any time.
C16_OneCommitAtATime ==
    \A t, u \in DOMAIN th : InCommitState(t) /\ InCommitState(u) => t = u

\* the call of t failed before it reached CommitState: at NewStateAt, at the
\* engine's execution, or at the derivation of the change-sets
FailedBeforeCommit(t) ==
    \/ th[t].currentState = Nil
    \/ th[t].engine /\ th[t].newStateChanges = Nil

\* C17: a DeliverBlock call invokes CommitState at most once: once when it
\* succeeds, never when it fails at the state view, the execution or the
\* change-set derivation; the engine runs and a commit is made only after the
\* state view for the request's height was acquired.
C17_OneCommitPerCall ==
    \A t \in DOMAIN th :
        th[t].op = "DeliverBlock"
        => /\ th[t].commits <= 1
           /\ Returned(t, "DeliverBlock") /\ Succeeded(t) => th[t].commits = 1
           /\ Returned(t, "DeliverBlock") /\ FailedBeforeCommit(t)
                => th[t].commits = 0 /\ ~Succeeded(t) /\ db = th[t].preDb
           /\ th[t].engine \/ th[t].commits > 0
                => th[t].currentState = Some(NewStateAt(th[t].block[1].Height))

\* a second delivery that executed its block and committed it, once
C17_Witness ==
    /\ Returned("t1", "DeliverBlock")
    /\ Succeeded("t1")
    /\ th["t1"].engine
    /\ th["t1"].commits = 1
    /\ Len(db) = 2

\* the stage at which the failed call of t stopped, from what it had done
FailedStage(t) ==
    CASE th[t].currentState = Nil -> "anchor"
      [] th[t].commits > 0 -> "commit"
      [] th[t].engine /\ th[t].blockResponse = Nil -> "execution"
      [] th[t].engine /\ th[t].blockResponse # Nil -> "change-set"

\* C18: a failed DeliverBlock returns no block response and no state root, and
\* its error carries the label of the stage that failed, one label per stage,
\* "commit failed" on the cache-reuse path as on the re-execution path.
C18_ErrorNamesStage ==
    \A t \in DOMAIN th :
        Returned(t, "DeliverBlock") /\ ~Succeeded(t)
        => /\ th[t].ret.resp = Nil
           /\ th[t].ret.root = Nil
           /\ FailedStage(t) = "anchor"
                => th[t].ret.err = "unable to create new state for height"
           /\ FailedStage(t) = "execution" => th[t].ret.err = "block delivery failed"
           /\ FailedStage(t) = "change-set" => th[t].ret.err = "change set"
           /\ FailedStage(t) = "commit" => th[t].ret.err = "commit failed"

\* the commit of the cached change-sets failed
C18_Witness ==
    /\ Returned("t1", "DeliverBlock")
    /\ ~th["t1"].engine
    /\ th["t1"].commits = 1
    /\ th["t1"].ret.err = "commit failed"

\* C19: a Query or Simulate call loads Last-Committed-Height once and runs on
\* the read-only view anchored at the height it loaded, also when a
\* DeliverBlock advances the height meanwhile; without a view it returns the
\* error and the engine is not invoked.
C19_ReadAtLoadedHeight ==
    \A t \in DOMAIN th :
        th[t].op \in {"Query", "Simulate"}
        => /\ th[t].lastBlock # Nil
           /\ Returned(t, th[t].op) /\ Succeeded(t)
                => /\ th[t].engine
                   /\ th[t].currentState = Some(ReadonlyStateAt(th[t].lastBlock[1]))
                   /\ th[t].ret.resp = Some([op |-> th[t].op, at |-> th[t].lastBlock[1]])
           /\ Returned(t, th[t].op) /\ ~Succeeded(t)
                => /\ ~th[t].engine
                   /\ th[t].currentState = Nil
                   /\ th[t].ret.resp = Nil

\* a Query has loaded the height and a DeliverBlock has advanced it since
C19_Witness ==
    /\ th["t2"].op = "Query"
    /\ th["t2"].pc = "ReadonlyStateAt"
    /\ th["t2"].lastBlock = Some(0)
    /\ lastBlockHeight = 1
    /\ Returned("t1", "DeliverBlock")

====
